---- MODULE Spec2Model ----
(***************************************************************************)
(* A model of the batch orchestration of the HS-code classifier:           *)
(* HSCodeAgent.classify_batch and HSCodeAgent.classify_single_item of      *)
(* src/ai_agents/hs_agent.py, with the chunk size of src/config.py; of the *)
(* session store of src/database_manager.py; of the processing run         *)
(* DataProcessor.process_data_with_ai of src/data_processor.py; of the     *)
(* confidence-tier classifiers of the program; and of the pages and the    *)
(* session state of the Streamlit script src/app.py.                       *)
(*                                                                         *)
(* Strings of the program that are written in Russian are transliterated   *)
(* to ASCII; the original text is given next to each definition.           *)
(***************************************************************************)
EXTENDS Integers, Sequences, FiniteSets, TLC

(***************************************************************************)
(* Bounds of the model and constants of the program.                       *)
(***************************************************************************)
\* the longest item list that is explored
MaxItems == 3
\* the largest chunk size that is explored next to the configured one
MaxBatchSize == 2
\* config.BATCH_SIZE
BATCH_SIZE == 10
\* config.DEFAULT_CONFIDENCE_THRESHOLD, read into self.confidence_threshold
DEFAULT_CONFIDENCE_THRESHOLD == 80

\* The values config.BATCH_SIZE is explored with: the configured value, the
\* small positive sizes that make several chunks, and zero and a negative one.
BatchSizes == ((0 - 1) .. MaxBatchSize) \cup {BATCH_SIZE}

Min(a, b) == IF a <= b THEN a ELSE b

(***************************************************************************)
(* The items.  An item is a dictionary; what classify_batch and            *)
(* classify_single_item do with it depends only on whether its auxiliary   *)
(* values are text: a truthy auxiliary value without a strip() method      *)
(* makes line 158 raise AttributeError before the try of line 169.         *)
(***************************************************************************)
ItemKinds == {"text", "nontext"}

ItemLists == UNION {[1 .. n -> ItemKinds] : n \in 0 .. MaxItems}

(***************************************************************************)
(* HSCodeSearchResult values.  reasoning is [prefix, n]: the fixed prefix  *)
(* of the f-string that builds it and the number formatted into it.        *)
(***************************************************************************)
\* confidences the agent answers with in the model (Field(ge=0, le=100))
AgentConfidences == {50, 80}

\* the structured answer of the agent (result.final_output, line 179)
AgentResult(c) ==
    [hs_code |-> "8517.12.000", confidence |-> c,
     description |-> "agent", reasoning |-> [prefix |-> "agent", n |-> 0]]

\* lines 184-189: final_output is not an HSCodeSearchResult
\* description "Ошибка обработки - не удалось получить структурированный результат"
\* reasoning   "Агент вернул: ..."
UnstructuredFallback ==
    [hs_code |-> "0000.00.000", confidence |-> 10,
     description |-> "Oshibka obrabotki - net strukturirovannogo rezultata",
     reasoning |-> [prefix |-> "Agent vernul: ", n |-> 0]]

\* lines 195-200: Runner.run raised an Exception
\* description "Ошибка классификации", reasoning "Произошла ошибка при обработке: ..."
ClassificationErrorResult ==
    [hs_code |-> "0000.00.000", confidence |-> 0,
     description |-> "Oshibka klassifikacii",
     reasoning |-> [prefix |-> "Proizoshla oshibka pri obrabotke: ", n |-> 0]]

\* lines 266-271: the placeholder for an item whose task raised
\* description "Ошибка обработки", reasoning "Исключение: ..."
ExceptionSentinel ==
    [hs_code |-> "0000.00.000", confidence |-> 0,
     description |-> "Oshibka obrabotki",
     reasoning |-> [prefix |-> "Isklyuchenie: ", n |-> 0]]

\* lines 292-297: the placeholder of the chunk-level except branch
\* description "Ошибка пакетной обработки", reasoning = error_msg
\* ("Ошибка обработки пакета {batch_index + 1}: ...")
BatchSentinel(b) ==
    [hs_code |-> "0000.00.000", confidence |-> 0,
     description |-> "Oshibka paketnoj obrabotki",
     reasoning |-> [prefix |-> "Oshibka obrabotki paketa ", n |-> b]]

\* line 262: "Ошибка обработки элемента {i+j+1}: ..."
ItemErrorMsg(k) == [prefix |-> "Oshibka obrabotki elementa ", n |-> k]

\* line 286: "Ошибка обработки пакета {batch_index + 1}: ..."
BatchErrorMsg(b) == [prefix |-> "Oshibka obrabotki paketa ", n |-> b]

(***************************************************************************)
(* What asyncio.gather with return_exceptions=True hands back for one     *)
(* task: the value the coroutine returned, the Exception it raised, or a   *)
(* CancelledError (a BaseException that is no Exception) when the task     *)
(* ended cancelled.                                                        *)
(***************************************************************************)
NoValue == [hs_code |-> "", confidence |-> 0, description |-> "",
            reasoning |-> [prefix |-> "", n |-> 0]]

Returned(v) == [kind |-> "value", value |-> v]
RaisedException == [kind |-> "Exception", value |-> NoValue]
RaisedCancelled == [kind |-> "CancelledError", value |-> NoValue]
Pending == [kind |-> "pending", value |-> NoValue]

\* The outcomes of Runner.run (line 171) as classify_single_item sees them.
RunnerOutcomes ==
    {[kind |-> "structured", confidence |-> c] : c \in AgentConfidences}
    \cup {[kind |-> "unstructured", confidence |-> 0],
          [kind |-> "exception", confidence |-> 0],
          [kind |-> "cancelled", confidence |-> 0]}

\* classify_single_item, lines 154-161: building full_description raises
\* (value.strip() at line 158, outside the try) for a non-text auxiliary value
PreambleRaises(kind) == kind = "nontext"

\* classify_single_item, lines 169-200: the outcome of the task when
\* Runner.run ends with `run`
ClassifySingleItem(run) ==
    IF run.kind = "structured" THEN Returned(AgentResult(run.confidence))
    ELSE IF run.kind = "unstructured" THEN Returned(UnstructuredFallback)
    ELSE IF run.kind = "exception" THEN Returned(ClassificationErrorResult)
    ELSE RaisedCancelled                                \* not caught by line 193

VARIABLES
    items,            \* the argument items
    has_callback,     \* whether progress_callback is supplied (truthy)
    batch_size,       \* line 221
    pc,               \* the position of classify_batch
    i,                \* the loop variable i of line 235
    batch_index,      \* the loop variable batch_index of line 235
    j,                \* the loop variable j of line 260
    task,             \* per item: the state of its classify_single_item call
    batch_results,    \* per item: what gather returned for its task
    results,          \* line 219
    errors,           \* line 220
    processing_stats, \* line 304
    call_log,         \* the items classify_single_item was called for, in order
    cb_log            \* the invocations of progress_callback, in order

vars == <<items, has_callback, batch_size, pc, i, batch_index, j, task,
          batch_results, results, errors, processing_stats, call_log, cb_log>>

VARIABLES
    processing_sessions,    \* table processing_sessions: id -> row
    classification_results, \* table classification_results: id -> row
    sqlite_sequence,        \* the AUTOINCREMENT counters of the two tables
    store_error,            \* what the last store operation raised, "" if nothing
    data,                   \* the DataFrame: its product-name cells, row by row
    data_index,             \* data.index: the label of each row of data
    column_mapping,         \* whether column_mapping names a product_name column
    extra_column,           \* the cleaned name of the unmapped column, or "none"
    rpc,                    \* the position of process_data_with_ai
    session_id,             \* line 314
    prepared,               \* the items of line 322
    caught,                 \* the exception e of line 430, "" if none
    ret,                    \* what process_data_with_ai returned
    shown,                  \* a confidence on display and the tier each classifier gives it
    fetched,                \* the DataFrame the last get_session_results returned
    current_step,           \* st.session_state.current_step
    uploaded_file,          \* st.session_state.uploaded_file
    uploaded_data,          \* st.session_state.uploaded_data
    session_column_mapping, \* st.session_state.column_mapping
    processing_results,     \* st.session_state.processing_results
    current_session_id      \* st.session_state.current_session_id, 0 while absent

store_vars == <<processing_sessions, classification_results, sqlite_sequence,
                store_error>>

run_vars == <<data, data_index, column_mapping, extra_column, rpc, session_id,
              prepared, caught, ret>>

\* st.session_state of src/app.py
ui_vars == <<current_step, uploaded_file, uploaded_data, session_column_mapping,
             processing_results, current_session_id>>

view_vars == <<shown, fetched, ui_vars>>

\* every variable that is no local of classify_batch
outside_batch == <<store_vars, run_vars, view_vars>>

all_vars == <<vars, store_vars, run_vars, view_vars>>

N == Len(items)

\* a slice that forgets its upper end: items[i:]
BatchUnbounded(start, size, n) == (start + 1) .. n

\* items[i:i + batch_size] of line 236, as the 1-based indices of its items
Batch(start, size, n) == (start + 1) .. Min(start + size, n)

CurrentBatch == Batch(i, batch_size, N)

NoStats == [total_items |-> 0, successful_classifications |-> 0,
            high_confidence_results |-> 0,
            average_confidence |-> [num |-> 0, den |-> 1],
            processing_errors |-> 0]

(***************************************************************************)
(* The state of what classify_batch does not touch, before anything ran.   *)
(***************************************************************************)
\* database_manager.init_database on a new file: both tables are empty
StoreEmpty ==
    /\ processing_sessions = <<>>
    /\ classification_results = <<>>
    /\ sqlite_sequence = [processing_sessions |-> 0, classification_results |-> 0]
    /\ store_error = ""

\* the value of ret while process_data_with_ai has not returned
NoReturn == [success |-> FALSE, error |-> "", results |-> <<>>]

\* process_data_with_ai is not called
RunNotCalled ==
    /\ data = <<>>
    /\ data_index = <<>>
    /\ column_mapping = "product_name"
    /\ extra_column = "none"
    /\ rpc = "not_called"
    /\ session_id = 0
    /\ prepared = <<>>
    /\ caught = ""
    /\ ret = NoReturn

\* the functions that turn a confidence into a tier
Classifiers ==
    {"get_confidence_color", "get_confidence_badge", "_get_confidence_status",
     "calculate_confidence_stats", "create_results_dataframe",
     "create_dataframe_with_db_results"}

\* no confidence is on display
NothingShown ==
    shown = [confidence |-> 0, tier |-> [f \in Classifiers |-> "not shown"]]

\* get_session_results is not called
NotFetched == [session_id |-> 0, rows |-> <<>>]

NothingFetched == fetched = NotFetched

\* None as the value of uploaded_data
NoData == [file |-> "None"]

\* {} as the value of column_mapping
EmptyMapping == [field \in {} |-> ""]

\* None as the value of processing_results
NoProcessingResults ==
    [success |-> FALSE, session_id |-> 0, data |-> NoData,
     column_mapping |-> EmptyMapping]

\* init_session_state on the first run of the script; current_session_id is
\* no key of the session state yet
init_session_state ==
    /\ uploaded_file = "None"
    /\ uploaded_data = NoData
    /\ session_column_mapping = EmptyMapping
    /\ processing_results = NoProcessingResults
    /\ current_step = "upload"
    /\ current_session_id = 0

Init ==
    /\ StoreEmpty
    /\ RunNotCalled
    /\ NothingShown
    /\ NothingFetched
    /\ init_session_state
    /\ items \in ItemLists
    /\ has_callback \in BOOLEAN
    /\ batch_size \in BatchSizes
    /\ pc = "start"
    /\ i = 0
    /\ batch_index = 0
    /\ j = 0
    /\ task = [k \in 1 .. Len(items) |-> "none"]
    /\ batch_results = [k \in 1 .. Len(items) |-> Pending]
    /\ results = <<>>
    /\ errors = <<>>
    /\ processing_stats = NoStats
    /\ call_log = <<>>
    /\ cb_log = <<>>


(***************************************************************************)
(* classify_batch, lines 217-322.                                          *)
(***************************************************************************)
\* range(0, len(items), batch_size) of line 235 still holds the element x
RangeHas(x, stop, step) == IF step > 0 THEN x < stop ELSE x > stop

\* the 1-based indices of a chunk, in list order
BatchSeq(start, size, n) ==
    [m \in 1 .. Cardinality(Batch(start, size, n)) |-> start + m]

\* len(batch)
BatchLen == Cardinality(CurrentBatch)

\* line 278: processed_count
ProcessedCount(start, size, n) == Min(start + size, n)

\* a loop that steps by one item instead of one chunk
NextIterationByOne ==
    /\ i' = i + 1
    /\ batch_index' = batch_index + 1
    /\ pc' = "loop"

\* the for statement of line 235 takes its next element
NextIteration ==
    /\ i' = i + batch_size
    /\ batch_index' = batch_index + 1
    /\ pc' = "loop"

\* lines 217-233 with batch_size /= 0
StartBatch ==
    /\ pc = "start"
    /\ batch_size # 0
    /\ pc' = "loop"
    /\ UNCHANGED <<items, has_callback, batch_size, i, batch_index, j, task,
                   batch_results, results, errors, processing_stats,
                   call_log, cb_log>>
    /\ UNCHANGED outside_batch

\* line 232 with batch_size = 0: the floor division raises ZeroDivisionError,
\* which leaves classify_batch
StartDivisionByZero ==
    /\ pc = "start"
    /\ batch_size = 0
    /\ pc' = "raised"
    /\ UNCHANGED <<items, has_callback, batch_size, i, batch_index, j, task,
                   batch_results, results, errors, processing_stats,
                   call_log, cb_log>>
    /\ UNCHANGED outside_batch

\* lines 235-252: the next chunk; one classify_single_item coroutine is made
\* for each of its items, in order (none runs before gather schedules it)
CreateTasks ==
    /\ pc = "loop"
    /\ RangeHas(i, N, batch_size)
    /\ task' = [k \in 1 .. N |->
                  IF k \in Batch(i, batch_size, N) THEN "coro" ELSE task[k]]
    /\ call_log' = call_log \o BatchSeq(i, batch_size, N)
    /\ j' = 0
    /\ pc' = "gather"
    /\ UNCHANGED <<items, has_callback, batch_size, i, batch_index,
                   batch_results, results, errors, processing_stats, cb_log>>
    /\ UNCHANGED outside_batch

\* line 257: the event loop runs the first step of the next task of the chunk
\* (tasks start in the order gather scheduled them).  A task whose item has a
\* non-text auxiliary value raises in that first step.
StartTask(k) ==
    /\ pc = "gather"
    /\ k \in CurrentBatch
    /\ task[k] = "coro"
    /\ \A m \in CurrentBatch : m < k => task[m] # "coro"
    /\ IF PreambleRaises(items[k])
       THEN /\ task' = [task EXCEPT ![k] = "done"]
            /\ batch_results' = [batch_results EXCEPT ![k] = RaisedException]
       ELSE /\ task' = [task EXCEPT ![k] = "running"]
            /\ UNCHANGED batch_results
    /\ UNCHANGED <<items, has_callback, batch_size, pc, i, batch_index, j,
                   results, errors, processing_stats, call_log, cb_log>>
    /\ UNCHANGED outside_batch

\* line 257: a running task ends, in any order among the running ones, with
\* whatever Runner.run ended with
FinishTask(k, run) ==
    /\ pc = "gather"
    /\ task[k] = "running"
    /\ task' = [task EXCEPT ![k] = "done"]
    /\ batch_results' = [batch_results EXCEPT ![k] = ClassifySingleItem(run)]
    /\ UNCHANGED <<items, has_callback, batch_size, pc, i, batch_index, j,
                   results, errors, processing_stats, call_log, cb_log>>
    /\ UNCHANGED outside_batch

\* a wait that ends with the first task that is done (FIRST_COMPLETED)
GatherAnyDone == \E k \in CurrentBatch : task[k] = "done"

\* gather is done when every task of the chunk is done
GatherDone == \A k \in CurrentBatch : task[k] = "done"

\* lines 257-258: gather returns the outcomes in the order of the tasks
GatherReturn ==
    /\ pc = "gather"
    /\ GatherDone
    /\ pc' = "handle"
    /\ j' = 0
    /\ UNCHANGED <<items, has_callback, batch_size, i, batch_index, task,
                   batch_results, results, errors, processing_stats,
                   call_log, cb_log>>
    /\ UNCHANGED outside_batch

\* lines 261-271: the outcome is an Exception
HandleException ==
    /\ pc = "handle"
    /\ j < BatchLen
    /\ batch_results[i + j + 1].kind = "Exception"
    /\ errors' = Append(errors, ItemErrorMsg(i + j + 1))
    /\ results' = Append(results, ExceptionSentinel)
    /\ j' = j + 1
    /\ UNCHANGED <<items, has_callback, batch_size, pc, i, batch_index, task,
                   batch_results, processing_stats, call_log, cb_log>>
    /\ UNCHANGED outside_batch

\* lines 272-274: the outcome is a returned HSCodeSearchResult
HandleValue ==
    /\ pc = "handle"
    /\ j < BatchLen
    /\ batch_results[i + j + 1].kind = "value"
    /\ results' = Append(results, batch_results[i + j + 1].value)
    /\ j' = j + 1
    /\ UNCHANGED <<items, has_callback, batch_size, pc, i, batch_index, task,
                   batch_results, errors, processing_stats, call_log, cb_log>>
    /\ UNCHANGED outside_batch

\* lines 285-297, the chunk-level except branch: one error message and one
\* placeholder for every item of the chunk, added to what results holds
BatchFailure ==
    /\ errors' = Append(errors, BatchErrorMsg(batch_index + 1))
    /\ results' = results \o [m \in 1 .. BatchLen |-> BatchSentinel(batch_index + 1)]

\* lines 261, 272-273: the outcome is a CancelledError.  It is no Exception, so
\* line 261 is false and line 273 reads result.hs_code, which raises
\* AttributeError; line 285 catches it.
HandleCancelled ==
    /\ pc = "handle"
    /\ j < BatchLen
    /\ batch_results[i + j + 1].kind = "CancelledError"
    /\ BatchFailure
    /\ NextIteration
    /\ UNCHANGED <<items, has_callback, batch_size, j, task, batch_results,
                   processing_stats, call_log, cb_log>>
    /\ UNCHANGED outside_batch

\* lines 277-281: the outcomes are handled and a callback is supplied: it is
\* called with (processed_count, len(items))
CallbackInvoke ==
    /\ pc = "handle"
    /\ j = BatchLen
    /\ has_callback
    /\ cb_log' = Append(cb_log,
            [processed_count |-> ProcessedCount(i, batch_size, N),
             total |-> N, chunk |-> batch_index + 1, raised |-> FALSE])
    /\ pc' = "callback"
    /\ UNCHANGED <<items, has_callback, batch_size, i, batch_index, j, task,
                   batch_results, results, errors, processing_stats, call_log>>
    /\ UNCHANGED outside_batch

\* line 281: the callback returns
CallbackReturn ==
    /\ pc = "callback"
    /\ NextIteration
    /\ UNCHANGED <<items, has_callback, batch_size, j, task, batch_results,
                   results, errors, processing_stats, call_log, cb_log>>
    /\ UNCHANGED outside_batch

\* the callback's Exception caught by line 285 instead of line 282
CallbackFailureFailsBatch ==
    /\ BatchFailure
    /\ NextIteration

\* what classify_batch does when the callback raises an Exception:
\* lines 282-283 print it and the loop goes on
CallbackFailure ==
    /\ NextIteration
    /\ UNCHANGED <<results, errors>>

\* lines 281-283: the callback raises an Exception
CallbackRaise ==
    /\ pc = "callback"
    /\ cb_log' = [cb_log EXCEPT ![Len(cb_log)].raised = TRUE]
    /\ CallbackFailure
    /\ UNCHANGED <<items, has_callback, batch_size, j, task, batch_results,
                   processing_stats, call_log>>
    /\ UNCHANGED outside_batch

\* line 277 with no callback
NoCallback ==
    /\ pc = "handle"
    /\ j = BatchLen
    /\ ~has_callback
    /\ NextIteration
    /\ UNCHANGED <<items, has_callback, batch_size, j, task, batch_results,
                   results, errors, processing_stats, call_log, cb_log>>
    /\ UNCHANGED outside_batch

\* line 235: the range is exhausted
LoopExit ==
    /\ pc = "loop"
    /\ ~RangeHas(i, N, batch_size)
    /\ pc' = "stats"
    /\ UNCHANGED <<items, has_callback, batch_size, i, batch_index, j, task,
                   batch_results, results, errors, processing_stats,
                   call_log, cb_log>>
    /\ UNCHANGED outside_batch

(***************************************************************************)
(* The statistics, lines 299-313.  average_confidence is a float in the    *)
(* program; the model keeps the quotient as numerator and denominator.     *)
(***************************************************************************)
\* line 300
SuccessfulClassifications(rs) == SelectSeq(rs, LAMBDA r : r.confidence > 0)

\* the threshold taken as exclusive
HighConfidenceStrict(rs, threshold) ==
    SelectSeq(SuccessfulClassifications(rs), LAMBDA r : r.confidence > threshold)

\* lines 301-302
HighConfidence(rs, threshold) ==
    SelectSeq(SuccessfulClassifications(rs), LAMBDA r : r.confidence >= threshold)

RECURSIVE SumConfidence(_)
\* sum(r.confidence for r in ...) of line 309
SumConfidence(rs) ==
    IF rs = <<>> THEN 0 ELSE Head(rs).confidence + SumConfidence(Tail(rs))

\* the quotient without the guard of line 310 (den = 0 is a division by zero)
AverageConfidenceUnguarded(rs) ==
    [num |-> SumConfidence(SuccessfulClassifications(rs)),
     den |-> Len(SuccessfulClassifications(rs))]

\* lines 308-311
AverageConfidence(rs) ==
    IF SuccessfulClassifications(rs) # <<>>
    THEN [num |-> SumConfidence(SuccessfulClassifications(rs)),
          den |-> Len(SuccessfulClassifications(rs))]
    ELSE [num |-> 0, den |-> 1]

\* lines 304-313
ProcessingStats(its, rs, errs) ==
    [total_items |-> Len(its),
     successful_classifications |-> Len(SuccessfulClassifications(rs)),
     high_confidence_results |-> Len(HighConfidence(rs, DEFAULT_CONFIDENCE_THRESHOLD)),
     average_confidence |-> AverageConfidence(rs),
     processing_errors |-> Len(errs)]

\* lines 299-322: the statistics are computed and the batch result returned
ComputeStats ==
    /\ pc = "stats"
    /\ processing_stats' = ProcessingStats(items, results, errors)
    /\ pc' = "done"
    /\ UNCHANGED <<items, has_callback, batch_size, i, batch_index, j, task,
                   batch_results, results, errors, call_log, cb_log>>
    /\ UNCHANGED outside_batch

Next ==
    \/ StartBatch
    \/ StartDivisionByZero
    \/ CreateTasks
    \/ \E k \in 1 .. N : StartTask(k)
    \/ \E k \in 1 .. N : \E run \in RunnerOutcomes : FinishTask(k, run)
    \/ GatherReturn
    \/ HandleException
    \/ HandleValue
    \/ HandleCancelled
    \/ CallbackInvoke
    \/ CallbackReturn
    \/ CallbackRaise
    \/ NoCallback
    \/ LoopExit
    \/ ComputeStats

Spec == Init /\ [][Next]_all_vars

(***************************************************************************)
(* The session store, src/database_manager.py.  Each operation runs in one *)
(* sqlite transaction and is one step.  A table is a function from the ids *)
(* of its rows to the rows; the columns kept are the ones the operations   *)
(* branch on or the run writes (file names, notes, times and texts are     *)
(* left out).                                                              *)
(***************************************************************************)
\* the most sessions and the most result rows the store operations, called
\* on their own, insert
MaxSessions == 2
MaxResults == 1

\* record + (key -> value): a row added to a table
Extended(table, more) == more @@ table

\* the rows of a table other than those with the ids given
Without(table, ids) == [id \in DOMAIN table \ ids |-> table[id]]

\* lines 74-77 with the column defaults of lines 29-34
NewSession(total) ==
    [total_items |-> total, processed_items |-> 0, high_confidence_items |-> 0,
     medium_confidence_items |-> 0, low_confidence_items |-> 0,
     status |-> "processing"]

\* lines 135-153 with the column default of line 55
NewResult(sid, result) ==
    [session_id |-> sid, row_index |-> result.row_index,
     category |-> result.category,
     confidence_percentage |-> result.confidence_percentage,
     user_status |-> "pending"]

\* create_processing_session: the inserted row gets the next id
create_processing_session(total) ==
    /\ processing_sessions' =
          Extended(processing_sessions,
                   [id \in {sqlite_sequence.processing_sessions + 1} |-> NewSession(total)])
    /\ sqlite_sequence' = [sqlite_sequence EXCEPT !.processing_sessions = @ + 1]
    /\ store_error' = ""
    /\ UNCHANGED classification_results

\* lines 96-113: the column each keyword argument is written to
Column(param) ==
    CASE param = "processed_items" -> "processed_items"
      [] param = "high_confidence" -> "high_confidence_items"
      [] param = "medium_confidence" -> "medium_confidence_items"
      [] param = "low_confidence" -> "low_confidence_items"
      [] param = "status" -> "status"

\* an UPDATE that writes every column, the default where no argument is given
UpdatedSessionAllColumns(row, args) ==
    [c \in DOMAIN row |->
        IF \E p \in DOMAIN args : Column(p) = c
        THEN args[CHOOSE p \in DOMAIN args : Column(p) = c]
        ELSE NewSession(0)[c]]

\* lines 93-123: the row after UPDATE ... SET; args holds the keyword
\* arguments that are not None
UpdatedSession(row, args) ==
    [c \in DOMAIN row |->
        IF \E p \in DOMAIN args : Column(p) = c
        THEN args[CHOOSE p \in DOMAIN args : Column(p) = c]
        ELSE row[c]]

\* update_processing_session: nothing is executed without an argument
\* (line 115), and WHERE id = ? matches no row of a missing session
update_processing_session(sid, args) ==
    /\ processing_sessions' =
          IF DOMAIN args # {} /\ sid \in DOMAIN processing_sessions
          THEN [processing_sessions EXCEPT ![sid] = UpdatedSession(@, args)]
          ELSE processing_sessions
    /\ store_error' = ""
    /\ UNCHANGED <<classification_results, sqlite_sequence>>

\* save_classification_results: one row per result, whatever session_id is
\* (sqlite does not enforce the FOREIGN KEY of line 59 unless asked to)
save_classification_results(sid, rs) ==
    /\ classification_results' =
          Extended(classification_results,
                   [id \in (sqlite_sequence.classification_results + 1) ..
                           (sqlite_sequence.classification_results + Len(rs)) |->
                        NewResult(sid, rs[id - sqlite_sequence.classification_results])])
    /\ sqlite_sequence' = [sqlite_sequence EXCEPT !.classification_results = @ + Len(rs)]
    /\ store_error' = ""
    /\ UNCHANGED processing_sessions

\* line 339
valid_statuses == {"pending", "confirmed", "needs_review", "rejected"}

\* an UPDATE that has no WHERE clause
WithUserStatusEverywhere(table, rid, user_status) ==
    [id \in DOMAIN table |-> [table[id] EXCEPT !.user_status = user_status]]

\* lines 221-225 and 346-350: UPDATE ... SET user_status = ? WHERE id = ?
WithUserStatus(table, rid, user_status) ==
    IF rid \in DOMAIN table
    THEN [table EXCEPT ![rid].user_status = user_status]
    ELSE table

\* update_user_status, lines 212-226
update_user_status(rid, user_status) ==
    /\ classification_results' = WithUserStatus(classification_results, rid, user_status)
    /\ store_error' = ""
    /\ UNCHANGED <<processing_sessions, sqlite_sequence>>

\* line 340
StatusValid(user_status) == user_status \in valid_statuses

\* update_result_user_status, lines 339-359
update_result_user_status(rid, user_status) ==
    /\ IF StatusValid(user_status)
       THEN /\ classification_results' =
                  WithUserStatus(classification_results, rid, user_status)
            /\ store_error' = ""
       ELSE /\ store_error' = "ValueError"
            /\ UNCHANGED classification_results
    /\ UNCHANGED <<processing_sessions, sqlite_sequence>>

\* delete_session, lines 271-280: the results of the session, then the session
delete_session(sid) ==
    /\ classification_results' =
          Without(classification_results,
                  {id \in DOMAIN classification_results :
                      classification_results[id].session_id = sid})
    /\ processing_sessions' = Without(processing_sessions, {sid})
    /\ store_error' = ""
    /\ UNCHANGED sqlite_sequence

(***************************************************************************)
(* DataProcessor.prepare_items_for_processing, src/data_processor.py.      *)
(* The DataFrame is the column of product names, row by row, and the      *)
(* label of each row; it may have one more column that column_mapping      *)
(* does not name.                                                          *)
(***************************************************************************)
\* the most rows of a DataFrame that is explored
MaxRows == 3

\* a cell of the product-name column: NaN, the empty text, a name
Cells == {"NaN", "", "tv"}

DataFrames == UNION {[1 .. n -> Cells] : n \in 0 .. MaxRows}

\* the index of a DataFrame of n rows read from a file: pd.read_csv and
\* pd.read_excel number the rows 0, 1, ..., and dropna(how='all')
\* (src/app.py line 224, _clean_data line 184) removes the rows that are
\* empty in every column and keeps the labels of the others; here at most
\* one row was removed
Indexes(n) ==
    {[k \in 1 .. n |-> IF k <= gap THEN k - 1 ELSE k] : gap \in 0 .. n}

\* column_mapping names a source column for product_name, or none
ColumnMappings == {"product_name", "no product_name"}

\* the unmapped column: none, or one whose name is "Row Index"
\* (line 282 makes the key "row_index" of it)
ExtraColumns == {"none", "row_index"}

\* an index label of the DataFrame, and the text of a cell, as values of an
\* item's row_index
IntIndex(n) == [type |-> "int", value |-> n]
StrIndex == [type |-> "str", value |-> 0]

\* pd.isna
IsNa(cell) == cell = "NaN"

\* str.strip
Strip(text) ==
    CASE text \in {" ", "  "} -> ""
      [] text = " tv " -> "tv"
      [] OTHER -> text

\* lines 249-252
ProductName(cell) == Strip(IF IsNa(cell) THEN "" ELSE cell)

\* data.iterrows(): the pairs (index, row)
IterRows(d, labels) == [k \in 1 .. Len(d) |-> [index |-> labels[k], cell |-> d[k]]]

\* lines 274-283: item[clean_key] = value for the unmapped column, whose
\* cells hold text in every row; a key that is no key of the item yet is
\* one more auxiliary value
WithExtraColumn(item, extra) ==
    IF extra \in DOMAIN item THEN [item EXCEPT ![extra] = StrIndex] ELSE item

\* lines 258-286
Item(row, extra) ==
    WithExtraColumn([row_index |-> IntIndex(row.index),
                     product_name |-> ProductName(row.cell)], extra)

\* line 254: the row is kept
HasName(name) == name # ""

\* lines 246-289
PrepareItemsForProcessing(d, labels, extra) ==
    LET kept == SelectSeq(IterRows(d, labels), LAMBDA row : HasName(ProductName(row.cell)))
    IN  [k \in 1 .. Len(kept) |-> Item(kept[k], extra)]

(***************************************************************************)
(* DataProcessor.process_data_with_ai, lines 291-440.  The result of       *)
(* classify_batch is read from results, errors and processing_stats.       *)
(***************************************************************************)
\* classify_batch is not called
BatchNotCalled ==
    /\ items = <<>>
    /\ has_callback = TRUE
    /\ batch_size = BATCH_SIZE
    /\ pc = "not_called"
    /\ i = 0
    /\ batch_index = 0
    /\ j = 0
    /\ task = <<>>
    /\ batch_results = <<>>
    /\ results = <<>>
    /\ errors = <<>>
    /\ processing_stats = NoStats
    /\ call_log = <<>>
    /\ cb_log = <<>>

\* the return values of lines 330, 343-347, 411-428 and 436-440
\* error "Нет данных для обработки"
NoDataReturn == [success |-> FALSE, error |-> "Net dannyh dlya obrabotki", results |-> <<>>]
\* error "Ошибка AI агента: ..." or "Нет результатов обработки"
AgentErrorReturn == [success |-> FALSE, error |-> "Oshibka AI agenta", results |-> <<>>]
\* error str(e)
ExceptionReturn(e) == [success |-> FALSE, error |-> e, results |-> <<>>]
SuccessReturn(rs) == [success |-> TRUE, error |-> "", results |-> rs]

\* line 314: the session is created (outside the try)
CreateSession ==
    /\ rpc = "create"
    /\ create_processing_session(Len(data))
    /\ session_id' = sqlite_sequence.processing_sessions + 1
    /\ rpc' = "prepare"
    /\ UNCHANGED <<data, data_index, column_mapping, extra_column, caught, prepared, ret>>
    /\ UNCHANGED <<vars, view_vars>>

\* line 314: the insert raises; the exception leaves process_data_with_ai
CreateSessionRaises ==
    /\ rpc = "create"
    /\ rpc' = "propagated"
    /\ UNCHANGED <<data, data_index, column_mapping, extra_column, caught, session_id,
                   prepared, ret>>
    /\ UNCHANGED <<vars, store_vars, view_vars>>

\* line 322
PrepareItems ==
    /\ rpc = "prepare"
    /\ column_mapping = "product_name"
    /\ prepared' = PrepareItemsForProcessing(data, data_index, extra_column)
    /\ rpc' = "prepared"
    /\ UNCHANGED <<data, data_index, column_mapping, extra_column, caught, session_id, ret>>
    /\ UNCHANGED <<vars, store_vars, view_vars>>

\* line 322: lines 240-242 raise ValueError without a product_name column
PrepareRaises ==
    /\ rpc = "prepare"
    /\ column_mapping # "product_name"
    /\ rpc' = "except"
    /\ caught' = "ValueError: no product_name column"
    /\ UNCHANGED <<data, data_index, column_mapping, extra_column, session_id,
                   prepared, ret>>
    /\ UNCHANGED <<vars, store_vars, view_vars>>

\* a test of line 324 that lets an empty list through
NeverEmpty(its) == FALSE

\* line 324: not items
NoItemsPrepared(its) == its = <<>>

\* lines 324-330
NoItems ==
    /\ rpc = "prepared"
    /\ NoItemsPrepared(prepared)
    /\ update_processing_session(session_id, [status |-> "failed"])
    /\ ret' = NoDataReturn
    /\ rpc' = "returned"
    /\ UNCHANGED <<data, data_index, column_mapping, extra_column, caught, session_id, prepared>>
    /\ UNCHANGED <<vars, view_vars>>

\* line 333: classify_batch is called with the items and the callback; every
\* value of an item is text
CallClassifyBatch ==
    /\ rpc = "prepared"
    /\ ~NoItemsPrepared(prepared)
    /\ rpc' = "classify"
    /\ items' = [k \in 1 .. Len(prepared) |-> "text"]
    /\ task' = [k \in 1 .. Len(prepared) |-> "none"]
    /\ batch_results' = [k \in 1 .. Len(prepared) |-> Pending]
    /\ pc' = "start"
    /\ UNCHANGED <<has_callback, batch_size, i, batch_index, j, results, errors,
                   processing_stats, call_log, cb_log>>
    /\ UNCHANGED <<data, data_index, column_mapping, extra_column, caught, session_id,
                   prepared, ret>>
    /\ UNCHANGED <<store_vars, view_vars>>

\* line 336
BatchFailed == results = <<>> \/ Len(errors) > 0

\* lines 333-347: classify_batch has returned and its result is turned down
BatchRejected ==
    /\ rpc = "classify"
    /\ pc = "done"
    /\ BatchFailed
    /\ update_processing_session(session_id, [status |-> "failed"])
    /\ ret' = AgentErrorReturn
    /\ rpc' = "returned"
    /\ UNCHANGED <<data, data_index, column_mapping, extra_column, caught, session_id, prepared>>
    /\ UNCHANGED <<vars, view_vars>>

\* line 350, create_results_dataframe lines 518-539: a column of
\* len(results) values fits a copy of data only if data has as many rows
DataframeFits == Len(results) = Len(data)

\* line 350: create_results_dataframe raises ValueError
DataframeRaises ==
    /\ rpc = "classify"
    /\ pc = "done"
    /\ ~BatchFailed
    /\ ~DataframeFits
    /\ rpc' = "except"
    /\ caught' = "ValueError: length of values"
    /\ UNCHANGED <<data, data_index, column_mapping, extra_column, session_id,
                   prepared, ret>>
    /\ UNCHANGED <<vars, store_vars, view_vars>>

\* counts whose medium tier includes the high tier
ConfidenceStatsOverlapping(stats) ==
    [high |-> stats.high_confidence_results,
     medium |-> stats.successful_classifications,
     low |-> stats.total_items - stats.successful_classifications]

\* lines 354-358
ConfidenceStats(stats) ==
    [high |-> stats.high_confidence_results,
     medium |-> stats.successful_classifications - stats.high_confidence_results,
     low |-> stats.total_items - stats.successful_classifications]

\* the keyword arguments of lines 362-370
CompletedArgs ==
    [processed_items |-> Len(results),
     high_confidence |-> ConfidenceStats(processing_stats).high,
     medium_confidence |-> ConfidenceStats(processing_stats).medium,
     low_confidence |-> ConfidenceStats(processing_stats).low,
     status |-> "completed"]

\* lines 350-370: the DataFrame is built and the session is written as
\* completed
CompleteSession ==
    /\ rpc = "classify"
    /\ pc = "done"
    /\ ~BatchFailed
    /\ DataframeFits
    /\ update_processing_session(session_id, CompletedArgs)
    /\ rpc' = "save"
    /\ UNCHANGED <<data, data_index, column_mapping, extra_column, caught, session_id,
                   prepared, ret>>
    /\ UNCHANGED <<vars, view_vars>>

\* the cell of a mapped auxiliary column (category, brand, additional_info)
\* in the row of the file that is labelled label: a text of that row alone
CategoryCell(label) == [text |-> "category of row", row |-> label]

\* line 379: category = brand = additional_info = ''
NoCategory == [text |-> "", row |-> 0]

\* pd.Series(), the empty row of line 376
EmptySeries == [index |-> 0, empty |-> TRUE]

\* line 376: data.iloc[row_index] is the row at the POSITION row_index,
\* the empty Series if data has no such position
OriginalRow(row_index) ==
    IF row_index < Len(data)
    THEN [index |-> data_index[row_index + 1], empty |-> FALSE]
    ELSE EmptySeries

\* lines 379-388: the value of the mapped column in original_row, '' if
\* original_row has no such column
Category(original_row) ==
    IF original_row.empty THEN NoCategory ELSE CategoryCell(original_row.index)

\* line 376: row_index < len(data) raises TypeError for a row_index that is text
RowIndexComparable == \A k \in DOMAIN prepared : prepared[k].row_index.type = "int"

\* lines 372-404 (results and items are equally long once line 336 let the
\* batch result pass)
DbResults ==
    [k \in 1 .. Len(results) |->
        [row_index |-> prepared[k].row_index,
         category |-> Category(OriginalRow(prepared[k].row_index.value)),
         confidence_percentage |-> results[k].confidence]]

\* lines 413-423: row_index is the position in the result list
ReturnedResults ==
    [k \in 1 .. Len(results) |->
        [row_index |-> IntIndex(k - 1),
         confidence_percentage |-> results[k].confidence]]

\* lines 372-404: building db_results raises
BuildResultsRaises ==
    /\ rpc = "save"
    /\ ~RowIndexComparable
    /\ rpc' = "except"
    /\ caught' = "TypeError"
    /\ UNCHANGED <<data, data_index, column_mapping, extra_column, session_id,
                   prepared, ret>>
    /\ UNCHANGED <<vars, store_vars, view_vars>>

\* lines 372-428: the results are saved and the run returns them
SaveResults ==
    /\ rpc = "save"
    /\ RowIndexComparable
    /\ save_classification_results(session_id, DbResults)
    /\ ret' = SuccessReturn(ReturnedResults)
    /\ rpc' = "returned"
    /\ UNCHANGED <<data, data_index, column_mapping, extra_column, caught, session_id, prepared>>
    /\ UNCHANGED <<vars, view_vars>>

\* the run is about to write to the store inside the try of line 320
AtStoreWrite ==
    \/ rpc = "prepared" /\ NoItemsPrepared(prepared)
    \/ rpc = "classify" /\ pc = "done" /\ (BatchFailed \/ DataframeFits)
    \/ rpc = "save" /\ RowIndexComparable

\* lines 326, 339, 362, 407: the store write raises (sqlite3.Error); its
\* transaction is rolled back
StoreWriteRaises ==
    /\ AtStoreWrite
    /\ rpc' = "except"
    /\ caught' = "sqlite3.Error"
    /\ UNCHANGED <<data, data_index, column_mapping, extra_column, session_id,
                   prepared, ret>>
    /\ UNCHANGED <<vars, store_vars, view_vars>>

\* an except branch that returns without writing the status
HandlerKeepsStatus(sid) ==
    /\ update_processing_session(sid, [p \in {} |-> ""])

\* lines 432-435
HandlerMarksFailed(sid) ==
    /\ update_processing_session(sid, [status |-> "failed"])

\* lines 430-440: the except branch marks the session failed and returns
ExceptHandler ==
    /\ rpc = "except"
    /\ HandlerMarksFailed(session_id)
    /\ ret' = ExceptionReturn(caught)
    /\ rpc' = "returned"
    /\ UNCHANGED <<data, data_index, column_mapping, extra_column, caught, session_id, prepared>>
    /\ UNCHANGED <<vars, view_vars>>

\* line 432: the write of the except branch raises; the exception leaves
\* process_data_with_ai
ExceptHandlerRaises ==
    /\ rpc = "except"
    /\ rpc' = "propagated"
    /\ UNCHANGED <<data, data_index, column_mapping, extra_column, caught, session_id,
                   prepared, ret>>
    /\ UNCHANGED <<vars, store_vars, view_vars>>

\* a user deletes a session while the run is under way or after it
DeleteSession(sid) ==
    /\ sid \in DOMAIN processing_sessions
    /\ delete_session(sid)
    /\ UNCHANGED <<vars, run_vars, view_vars>>

ProcInit ==
    /\ StoreEmpty
    /\ NothingShown
    /\ NothingFetched
    /\ init_session_state
    /\ BatchNotCalled
    /\ data \in DataFrames
    /\ data_index \in Indexes(Len(data))
    /\ column_mapping \in ColumnMappings
    /\ extra_column \in ExtraColumns
    /\ rpc = "create"
    /\ session_id = 0
    /\ prepared = <<>>
    /\ caught = ""
    /\ ret = NoReturn

\* BATCH_SIZE is positive, a callback is passed and every value of a
\* prepared item is text: the steps of classify_batch for a zero chunk size,
\* for a missing callback and for a task that raised an Exception are left out
ProcNext ==
    \/ CreateSession
    \/ CreateSessionRaises
    \/ PrepareItems
    \/ PrepareRaises
    \/ NoItems
    \/ CallClassifyBatch
    \/ StartBatch
    \/ CreateTasks
    \/ \E k \in 1 .. N : StartTask(k)
    \/ \E k \in 1 .. N : \E run \in RunnerOutcomes : FinishTask(k, run)
    \/ GatherReturn
    \/ HandleValue
    \/ HandleCancelled
    \/ CallbackInvoke
    \/ CallbackReturn
    \/ CallbackRaise
    \/ LoopExit
    \/ ComputeStats
    \/ BatchRejected
    \/ DataframeRaises
    \/ CompleteSession
    \/ BuildResultsRaises
    \/ SaveResults
    \/ StoreWriteRaises
    \/ ExceptHandler
    \/ ExceptHandlerRaises
    \/ \E sid \in 1 .. MaxSessions : DeleteSession(sid)

ProcSpec == ProcInit /\ [][ProcNext]_all_vars

(***************************************************************************)
(* The store operations called on their own, with any argument.            *)
(***************************************************************************)
\* the keyword arguments update_processing_session is called with: none,
\* the status alone (lines 326-329 of data_processor.py), and all but
\* processing_time (lines 362-370 of data_processor.py)
UpdateArgs ==
    {[p \in {} |-> ""],
     [status |-> "failed"],
     [processed_items |-> 2, high_confidence |-> 1, medium_confidence |-> 1,
      low_confidence |-> 0, status |-> "completed"]}

\* the user_status arguments: one of valid_statuses and one that is not
UserStatusArgs == {"confirmed", "archived"}

\* a result as save_classification_results reads it
SomeResult ==
    [row_index |-> IntIndex(0), category |-> NoCategory,
     confidence_percentage |-> 50]

CallCreateProcessingSession ==
    /\ sqlite_sequence.processing_sessions < MaxSessions
    /\ create_processing_session(Len(<<SomeResult>>))
    /\ UNCHANGED <<vars, run_vars, view_vars>>

CallUpdateProcessingSession ==
    /\ \E sid \in 1 .. MaxSessions : \E args \in UpdateArgs :
          update_processing_session(sid, args)
    /\ UNCHANGED <<vars, run_vars, view_vars>>

CallSaveClassificationResults ==
    /\ \E sid \in 1 .. MaxSessions :
       \E n \in 1 .. (MaxResults - sqlite_sequence.classification_results) :
          save_classification_results(sid, [k \in 1 .. n |-> SomeResult])
    /\ UNCHANGED <<vars, run_vars, view_vars>>

CallUpdateUserStatus ==
    /\ \E rid \in 1 .. MaxResults : \E user_status \in UserStatusArgs :
          update_user_status(rid, user_status)
    /\ UNCHANGED <<vars, run_vars, view_vars>>

CallUpdateResultUserStatus ==
    /\ \E rid \in 1 .. MaxResults : \E user_status \in UserStatusArgs :
          update_result_user_status(rid, user_status)
    /\ UNCHANGED <<vars, run_vars, view_vars>>

CallDeleteSession ==
    /\ \E sid \in 1 .. MaxSessions : delete_session(sid)
    /\ UNCHANGED <<vars, run_vars, view_vars>>

StoreInit ==
    /\ StoreEmpty
    /\ RunNotCalled
    /\ NothingShown
    /\ NothingFetched
    /\ init_session_state
    /\ BatchNotCalled

StoreNext ==
    \/ CallCreateProcessingSession
    \/ CallUpdateProcessingSession
    \/ CallSaveClassificationResults
    \/ CallUpdateUserStatus
    \/ CallUpdateResultUserStatus
    \/ CallDeleteSession

StoreSpec == StoreInit /\ [][StoreNext]_all_vars

(***************************************************************************)
(* The confidence tiers: the functions that turn a confidence into one of  *)
(* high, medium and low.                                                   *)
(***************************************************************************)
\* config.MIN_CONFIDENCE_THRESHOLD
MIN_CONFIDENCE_THRESHOLD == 40
\* the floor of medium in HSCodeAgent.get_confidence_color
COLOR_MEDIUM_FLOOR == 60
\* HSCodeSearchResult.confidence: Field(ge=0, le=100)
MAX_CONFIDENCE == 100

\* if c >= high: ... elif c >= medium: ... else: ...
Tier(c, high, medium) ==
    IF c >= high THEN "high" ELSE IF c >= medium THEN "medium" ELSE "low"

\* hs_agent.py lines 324-331
get_confidence_color(c) == Tier(c, 80, COLOR_MEDIUM_FLOOR)

\* results_display.py lines 121-131
get_confidence_badge(c) == Tier(c, 80, 40)

\* results_display.py lines 792-799
get_confidence_status(c) == Tier(c, 80, 40)

\* data_processor.py lines 446-453, the tier one result is counted in
calculate_confidence_stats(c) == Tier(c, 80, 40)

\* data_processor.py lines 542-549
create_results_dataframe(c) ==
    Tier(c, DEFAULT_CONFIDENCE_THRESHOLD, MIN_CONFIDENCE_THRESHOLD)

\* data_processor.py lines 660-668
create_dataframe_with_db_results(c) ==
    Tier(c, DEFAULT_CONFIDENCE_THRESHOLD, MIN_CONFIDENCE_THRESHOLD)

\* the tier the classifier f gives the confidence c
TierOf(f, c) ==
    CASE f = "get_confidence_color" -> get_confidence_color(c)
      [] f = "get_confidence_badge" -> get_confidence_badge(c)
      [] f = "_get_confidence_status" -> get_confidence_status(c)
      [] f = "calculate_confidence_stats" -> calculate_confidence_stats(c)
      [] f = "create_results_dataframe" -> create_results_dataframe(c)
      [] f = "create_dataframe_with_db_results" -> create_dataframe_with_db_results(c)

\* a result with the confidence c is displayed by every classifier
Show(c) ==
    /\ shown' = [confidence |-> c, tier |-> [f \in Classifiers |-> TierOf(f, c)]]
    /\ UNCHANGED <<vars, store_vars, run_vars, fetched, ui_vars>>

ViewInit ==
    /\ StoreEmpty
    /\ RunNotCalled
    /\ NothingShown
    /\ NothingFetched
    /\ init_session_state
    /\ BatchNotCalled

ViewNext == \E c \in 0 .. MAX_CONFIDENCE : Show(c)

ViewSpec == ViewInit /\ [][ViewNext]_all_vars

(***************************************************************************)
(* The review of stored results, src/database_manager.py: the store        *)
(* operations called in any order with several result rows in the store.   *)
(***************************************************************************)
\* the most result rows of the store while results are reviewed
MaxReviewRows == 2

\* update_processing_session as lines 326-329 of data_processor.py call it
ReviewUpdateProcessingSession ==
    /\ \E sid \in 1 .. MaxSessions :
          update_processing_session(sid, [status |-> "failed"])
    /\ UNCHANGED <<vars, run_vars, view_vars>>

ReviewSaveClassificationResults ==
    /\ \E sid \in 1 .. MaxSessions :
       \E n \in 1 .. (MaxReviewRows - sqlite_sequence.classification_results) :
          save_classification_results(sid, [k \in 1 .. n |-> SomeResult])
    /\ UNCHANGED <<vars, run_vars, view_vars>>

ReviewUpdateUserStatus ==
    /\ \E rid \in 1 .. MaxReviewRows : \E user_status \in UserStatusArgs :
          update_user_status(rid, user_status)
    /\ UNCHANGED <<vars, run_vars, view_vars>>

ReviewUpdateResultUserStatus ==
    /\ \E rid \in 1 .. MaxReviewRows : \E user_status \in UserStatusArgs :
          update_result_user_status(rid, user_status)
    /\ UNCHANGED <<vars, run_vars, view_vars>>

ReviewNext ==
    \/ CallCreateProcessingSession
    \/ ReviewUpdateProcessingSession
    \/ ReviewSaveClassificationResults
    \/ ReviewUpdateUserStatus
    \/ ReviewUpdateResultUserStatus
    \/ CallDeleteSession

ReviewSpec == StoreInit /\ [][ReviewNext]_all_vars

(***************************************************************************)
(* DatabaseManager.get_session_results, src/database_manager.py, over      *)
(* rows that were saved in any order.                                      *)
(***************************************************************************)
\* the most result rows of the store while results are fetched
MaxFetchRows == 3

\* WHERE r.session_id = ?
Selected(table, sid) == {id \in DOMAIN table : table[id].session_id = sid}

\* the columns of the SELECT list of lines 192-196
FetchedRow(table, id) ==
    [id |-> id, row_index |-> table[id].row_index,
     category |-> table[id].category,
     confidence_percentage |-> table[id].confidence_percentage,
     user_status |-> table[id].user_status]

\* the orders in which a query can return the rows ids
Orders(ids) ==
    {q \in [1 .. Cardinality(ids) -> ids] :
        \A a, b \in 1 .. Cardinality(ids) : a # b => q[a] # q[b]}

\* rows returned as they were inserted
InsertionOrder(table, q) == \A a, b \in DOMAIN q : a < b => q[a] < q[b]

\* ORDER BY r.row_index: rows of equal row_index come in any order
OrderByRowIndex(table, q) ==
    \A a, b \in DOMAIN q :
        a < b => table[q[a]].row_index.value <= table[q[b]].row_index.value

\* get_session_results, lines 188-210
get_session_results(sid) ==
    /\ \E q \in Orders(Selected(classification_results, sid)) :
          /\ OrderByRowIndex(classification_results, q)
          /\ fetched' = [session_id |-> sid,
                         rows |-> [k \in DOMAIN q |->
                                      FetchedRow(classification_results, q[k])]]
    /\ UNCHANGED store_vars

\* results handed to save_classification_results last row first
DescendingResults(n) ==
    [k \in 1 .. n |-> [row_index |-> IntIndex(n - k), category |-> NoCategory,
                       confidence_percentage |-> 50]]

\* save_classification_results; the DataFrame of an earlier query is let go
FetchSaveClassificationResults ==
    /\ \E sid \in 1 .. MaxSessions :
       \E n \in 1 .. (MaxFetchRows - sqlite_sequence.classification_results) :
          save_classification_results(sid, DescendingResults(n))
    /\ fetched' = NotFetched
    /\ UNCHANGED <<vars, run_vars, shown, ui_vars>>

CallGetSessionResults ==
    /\ \E sid \in 1 .. MaxSessions : get_session_results(sid)
    /\ UNCHANGED <<vars, run_vars, shown, ui_vars>>

FetchNext ==
    \/ CallCreateProcessingSession
    \/ FetchSaveClassificationResults
    \/ CallGetSessionResults

FetchSpec == StoreInit /\ [][FetchNext]_all_vars

(***************************************************************************)
(* The Streamlit script, src/app.py: one action per button of the page     *)
(* that main renders for current_step; a step of the model is the handler  *)
(* of the button up to st.rerun(), with init_session_state of the next     *)
(* run of the script.                                                      *)
(***************************************************************************)
\* the files the user uploads
Files == {"a.csv", "b.csv"}

\* the columns of an uploaded file
Columns == {"name", "title"}

\* lines 193-230: the DataFrame read from the file
LoadFileData(file) == [file |-> file]

\* lines 335-342: the mapping of the form, choice is None or a column
FormMapping(choice) == [product_name |-> choice]

\* a form that accepts every mapping
AnyMappingAccepted(mapping) == TRUE

\* line 408
ProductNameSelected(mapping) == mapping.product_name # "None"

\* lines 277 and 324: the page has data to render
DataLoaded == uploaded_data # NoData

\* line 417
ProcessingReady == DataLoaded /\ DOMAIN session_column_mapping # {}

\* render_file_upload, lines 250-273: a file is chosen; it is stored when
\* validate_file accepts it and load_file_data returns a DataFrame
UploadFile ==
    /\ current_step = "upload"
    /\ \E file \in Files : \E loaded \in BOOLEAN :
          IF loaded
          THEN /\ uploaded_file' = file
               /\ uploaded_data' = LoadFileData(file)
               /\ current_step' = "preview"
               /\ UNCHANGED <<session_column_mapping, processing_results,
                              current_session_id>>
          ELSE UNCHANGED ui_vars
    /\ UNCHANGED <<vars, store_vars, run_vars, shown, fetched>>

\* render_data_preview, lines 313-315
PreviewBack ==
    /\ current_step = "preview"
    /\ DataLoaded
    /\ current_step' = "upload"
    /\ UNCHANGED <<uploaded_file, uploaded_data, session_column_mapping,
                   processing_results, current_session_id>>
    /\ UNCHANGED <<vars, store_vars, run_vars, shown, fetched>>

\* render_data_preview, lines 318-320
PreviewNext ==
    /\ current_step = "preview"
    /\ DataLoaded
    /\ current_step' = "mapping"
    /\ UNCHANGED <<uploaded_file, uploaded_data, session_column_mapping,
                   processing_results, current_session_id>>
    /\ UNCHANGED <<vars, store_vars, run_vars, shown, fetched>>

\* render_column_mapping, lines 402-404
MappingBack ==
    /\ current_step = "mapping"
    /\ DataLoaded
    /\ current_step' = "preview"
    /\ UNCHANGED <<uploaded_file, uploaded_data, session_column_mapping,
                   processing_results, current_session_id>>
    /\ UNCHANGED <<vars, store_vars, run_vars, shown, fetched>>

\* render_column_mapping, lines 406-413
MappingSubmit ==
    /\ current_step = "mapping"
    /\ DataLoaded
    /\ \E choice \in Columns \cup {"None"} :
          IF ProductNameSelected(FormMapping(choice))
          THEN /\ session_column_mapping' = FormMapping(choice)
               /\ current_step' = "processing"
          ELSE UNCHANGED <<session_column_mapping, current_step>>
    /\ UNCHANGED <<uploaded_file, uploaded_data, processing_results,
                   current_session_id>>
    /\ UNCHANGED <<vars, store_vars, run_vars, shown, fetched>>

\* the session and the rows process_data_with_ai leaves in the store when
\* it returns success=True: the session completed, one row per result
RunCompleted(sid) ==
    /\ processing_sessions' =
          Extended(processing_sessions,
                   sid :> UpdatedSession(NewSession(Len(<<SomeResult>>)),
                                         [processed_items |-> Len(<<SomeResult>>),
                                          status |-> "completed"]))
    /\ classification_results' =
          Extended(classification_results,
                   (sqlite_sequence.classification_results + 1) :>
                       NewResult(sid, SomeResult))
    /\ sqlite_sequence' =
          [processing_sessions |-> sid,
           classification_results |-> sqlite_sequence.classification_results + 1]
    /\ store_error' = ""

\* the session process_data_with_ai leaves in the store when it returns
\* success=False
RunFailed(sid) ==
    /\ processing_sessions' =
          Extended(processing_sessions,
                   sid :> UpdatedSession(NewSession(Len(<<SomeResult>>)),
                                         [status |-> "failed"]))
    /\ sqlite_sequence' = [sqlite_sequence EXCEPT !.processing_sessions = sid]
    /\ store_error' = ""
    /\ UNCHANGED classification_results

\* render_processing lines 449-457 and process_with_ai, lines 470-540:
\* process_data_with_ai runs over uploaded_data and column_mapping and
\* returns success or not.  The fields data and column_mapping of
\* processing_results record the arguments of the call (lines 495-496).
ProcessWithAi ==
    /\ current_step = "processing"
    /\ ProcessingReady
    /\ sqlite_sequence.processing_sessions < MaxSessions
    /\ LET sid == sqlite_sequence.processing_sessions + 1 IN
       \E success \in BOOLEAN :
          IF success
          THEN /\ RunCompleted(sid)
               /\ processing_results' =
                     [success |-> TRUE, session_id |-> sid,
                      data |-> uploaded_data,
                      column_mapping |-> session_column_mapping]
               /\ current_session_id' = sid
               /\ current_step' = "results"
          ELSE /\ RunFailed(sid)
               /\ UNCHANGED <<processing_results, current_session_id,
                              current_step>>
    /\ UNCHANGED <<uploaded_file, uploaded_data, session_column_mapping>>
    /\ UNCHANGED <<vars, run_vars, shown, fetched>>

\* render_processing, lines 460-462
ProcessingBack ==
    /\ current_step = "processing"
    /\ ProcessingReady
    /\ current_step' = "mapping"
    /\ UNCHANGED <<uploaded_file, uploaded_data, session_column_mapping,
                   processing_results, current_session_id>>
    /\ UNCHANGED <<vars, store_vars, run_vars, shown, fetched>>

\* render_processing, lines 465-468
ProcessingViewResults ==
    /\ current_step = "processing"
    /\ ProcessingReady
    /\ processing_results # NoProcessingResults
    /\ current_step' = "results"
    /\ UNCHANGED <<uploaded_file, uploaded_data, session_column_mapping,
                   processing_results, current_session_id>>
    /\ UNCHANGED <<vars, store_vars, run_vars, shown, fetched>>

\* main, lines 721-723
ResultsBackToMapping ==
    /\ current_step = "results"
    /\ current_step' = "mapping"
    /\ UNCHANGED <<uploaded_file, uploaded_data, session_column_mapping,
                   processing_results, current_session_id>>
    /\ UNCHANGED <<vars, store_vars, run_vars, shown, fetched>>

\* main, lines 726-728
ResultsRepeat ==
    /\ current_step = "results"
    /\ current_step' = "processing"
    /\ UNCHANGED <<uploaded_file, uploaded_data, session_column_mapping,
                   processing_results, current_session_id>>
    /\ UNCHANGED <<vars, store_vars, run_vars, shown, fetched>>

\* main, lines 731-737: the four keys are deleted, and init_session_state
\* of the next run sets them again; current_session_id is kept
ResultsNewFile ==
    /\ current_step = "results"
    /\ uploaded_file' = "None"
    /\ uploaded_data' = NoData
    /\ session_column_mapping' = EmptyMapping
    /\ processing_results' = NoProcessingResults
    /\ current_step' = "upload"
    /\ UNCHANGED current_session_id
    /\ UNCHANGED <<vars, store_vars, run_vars, shown, fetched>>

UiNext ==
    \/ UploadFile
    \/ PreviewBack
    \/ PreviewNext
    \/ MappingBack
    \/ MappingSubmit
    \/ ProcessWithAi
    \/ ProcessingBack
    \/ ProcessingViewResults
    \/ ResultsBackToMapping
    \/ ResultsRepeat
    \/ ResultsNewFile

UiSpec == StoreInit /\ [][UiNext]_all_vars

(***************************************************************************)
(* Properties of classify_batch.                                           *)
(***************************************************************************)
\* classify_batch has returned its BatchProcessingResult
Returned_ == pc = "done"

\* a placeholder result: the zero-confidence code "0000.00.000"
IsSentinel(r) == r.hs_code = "0000.00.000" /\ r.confidence = 0

\* the placeholder of lines 266-271, whose reasoning holds "Исключение"
IsExceptionSentinel(r) == IsSentinel(r) /\ r.reasoning.prefix = "Isklyuchenie: "

\* the call for item k raised (an Exception or a CancelledError)
CallRaised(k) == batch_results[k].kind \in {"Exception", "CancelledError"}

\* the call for item k returned a value
CallReturned(k) == batch_results[k].kind = "value"

\* the call for item k failed: it raised, or Runner.run raised inside it and
\* it returned the failure result of lines 195-200
CallFailed(k) ==
    \/ CallRaised(k)
    \/ CallReturned(k) /\ batch_results[k].value = ClassificationErrorResult

\* r is what C1 lets results hold for item k: the value its call returned,
\* or a placeholder when the call raised
ResultOfCall(k, r) ==
    IF CallReturned(k) THEN r = batch_results[k].value ELSE IsSentinel(r)

\* C1: for every item list, every chunk size >= 1, every mix of succeeding
\* and failing calls and every completion order, the returned results list
\* is as long as items and results[k] is the result (or the placeholder) of
\* the call issued for items[k].
C1_Alignment ==
    (Returned_ /\ batch_size >= 1) =>
        /\ Len(results) = N
        /\ \A k \in 1 .. N : ResultOfCall(k, results[k])

\* C2: for every item whose call fails (raises or returns a failure) the
\* result at the item's index is the placeholder whose reasoning holds
\* "Исключение", exactly one error string names the item's 1-based index,
\* len(errors) is the number of failed items, and every item was classified.
C2_FailureRecorded ==
    (Returned_ /\ batch_size >= 1) =>
        /\ \A k \in 1 .. N : CallFailed(k) =>
              /\ k \in DOMAIN results
              /\ IsExceptionSentinel(results[k])
              /\ Cardinality({e \in DOMAIN errors : errors[e] = ItemErrorMsg(k)}) = 1
        /\ Len(errors) = Cardinality({k \in 1 .. N : CallFailed(k)})
        /\ call_log = [k \in 1 .. N |-> k]

\* C3: whatever subset of the calls fails, classify_batch returns normally
\* (no exception leaves it) and the result of every item whose call did not
\* fail is exactly the value that call returned.
C3_FailureIsolation ==
    /\ batch_size >= 1 => pc # "raised"
    /\ (Returned_ /\ batch_size >= 1) =>
          \A k \in 1 .. N : (CallReturned(k) /\ ~CallFailed(k)) =>
              /\ k \in DOMAIN results
              /\ results[k] = batch_results[k].value

\* C4: with a callback and a non-empty item list, the processed_count
\* arguments of the successive invocations are non-decreasing, each is
\* min(items processed so far, total), and the last one is len(items).
C4_Progress ==
    (Returned_ /\ has_callback /\ N > 0 /\ batch_size >= 1) =>
        /\ cb_log # <<>>
        /\ cb_log[Len(cb_log)].processed_count = N
        /\ \A a, b \in DOMAIN cb_log :
              a <= b => cb_log[a].processed_count <= cb_log[b].processed_count
        /\ \A a \in DOMAIN cb_log :
              /\ cb_log[a].processed_count = Min(cb_log[a].chunk * batch_size, N)
              /\ cb_log[a].total = N

\* C10: with a non-empty item list and a chunk size <= 0, classify_batch
\* raises before it issues any classification call and never returns a
\* batch result.
C10_FailFast ==
    (N > 0 /\ batch_size <= 0) =>
        /\ call_log = <<>>
        /\ ~Returned_

\* the calls that have started and not yet finished
Outstanding == {k \in 1 .. N : task[k] = "running"}

\* the 1-based number of the chunk of item k (for batch_size >= 1)
ChunkOf(k) == ((k - 1) \div batch_size) + 1

\* the callback of chunk c has been invoked and has returned or raised
CallbackOver(c) ==
    \E a \in DOMAIN cb_log : cb_log[a].chunk = c /\ (a < Len(cb_log) \/ pc # "callback")

\* chunk c ended in the chunk-level except branch, which invokes no callback
ChunkFailed(c) == \E e \in DOMAIN errors : errors[e] = BatchErrorMsg(c)

\* C5: chunks are processed strictly in order: while a call of a chunk is
\* created or running, classify_batch waits in gather, every call of every
\* earlier chunk has finished, no call of a later chunk exists and the
\* callback of every earlier chunk is over; and while the callback runs no
\* call is outstanding and every call of its chunk has finished.
C5_ChunkSequencing ==
    /\ \A k \in 1 .. N : task[k] \in {"coro", "running"} =>
          /\ pc = "gather"
          /\ k \in CurrentBatch
          /\ \A m \in 1 .. N : ChunkOf(m) < ChunkOf(k) => task[m] = "done"
          /\ \A m \in 1 .. N : ChunkOf(m) > ChunkOf(k) => task[m] = "none"
          /\ has_callback =>
                \A c \in 1 .. (ChunkOf(k) - 1) : CallbackOver(c) \/ ChunkFailed(c)
    /\ pc = "callback" =>
          /\ \A k \in 1 .. N : task[k] \in {"done", "none"}
          /\ \A k \in 1 .. N :
                ChunkOf(k) <= cb_log[Len(cb_log)].chunk => task[k] = "done"

\* C5 witness: a call of the second chunk runs after the callback of the
\* first chunk was invoked
C5_Witness ==
    /\ has_callback
    /\ \E k \in Outstanding : ChunkOf(k) = 2
    /\ Len(cb_log) = 1

\* C6: at every moment the number of calls started and not yet finished is
\* at most the chunk size, and all of them belong to the same chunk (none
\* at all for a chunk size <= 0).
C6_BoundedConcurrency ==
    /\ batch_size >= 1 =>
          /\ Cardinality(Outstanding) <= batch_size
          /\ \A a, b \in Outstanding : ChunkOf(a) = ChunkOf(b)
    /\ batch_size <= 0 => Outstanding = {}

\* C6 witness: a whole chunk of more than one call is outstanding, while
\* items of a later chunk wait
C6_Witness ==
    /\ batch_size >= 2
    /\ Cardinality(Outstanding) = batch_size
    /\ N > batch_size

C8_EmptyInput ==
    (N = 0 /\ batch_size >= 1) =>
        /\ pc # "raised"
        /\ call_log = <<>>
        /\ Returned_ =>
              /\ results = <<>>
              /\ errors = <<>>
              /\ processing_stats.total_items = 0
              /\ processing_stats.successful_classifications = 0
              /\ processing_stats.high_confidence_results = 0
              /\ processing_stats.average_confidence.num = 0
              /\ processing_stats.average_confidence.den # 0
              /\ processing_stats.processing_errors = 0

\* C8 witness: classify_batch has returned for an empty list
C8_Witness == Returned_ /\ N = 0 /\ batch_size >= 1

RECURSIVE ConfidenceSum(_, _)
\* the sum of the confidences of the results at the indices S
ConfidenceSum(rs, S) ==
    IF S = {} THEN 0
    ELSE LET k == CHOOSE x \in S : TRUE
         IN rs[k].confidence + ConfidenceSum(rs, S \ {k})

\* the indices of the results with a confidence above zero
Positive(rs) == {k \in DOMAIN rs : rs[k].confidence > 0}

\* the statistics st are those C9 states for the results rs
StatsAgree(st, rs) ==
    /\ st.successful_classifications = Cardinality(Positive(rs))
    /\ st.high_confidence_results
          = Cardinality({k \in DOMAIN rs : rs[k].confidence >= 80})
    /\ st.average_confidence.den # 0
    /\ IF Positive(rs) = {}
       THEN st.average_confidence.num = 0
       ELSE st.average_confidence.num * Cardinality(Positive(rs))
               = ConfidenceSum(rs, Positive(rs)) * st.average_confidence.den

\* the confidences [90, 50, 0, 80] of the example
ExampleResults ==
    <<AgentResult(90), AgentResult(50), ClassificationErrorResult, AgentResult(80)>>

\* C9: for every results list classify_batch produces, the statistics it
\* returns are: successful = the number of results with confidence > 0,
\* high = the number with confidence >= 80, average = the sum of the
\* confidences above zero divided by successful, and 0.0 when there is none;
\* the confidences [90, 50, 0, 80] give 3, 2 and 220/3.
C9_Statistics ==
    /\ Returned_ => StatsAgree(processing_stats, results)
    /\ LET st == ProcessingStats(ExampleResults, ExampleResults, <<>>)
       IN /\ st.successful_classifications = 3
          /\ st.high_confidence_results = 2
          /\ st.average_confidence.num * 3 = 220 * st.average_confidence.den

\* C9 witness: returned results with a zero, a middle and a threshold
\* confidence
C9_Witness ==
    /\ Returned_
    /\ \E a, b, c \in DOMAIN results :
          /\ results[a].confidence = 0
          /\ results[b].confidence = 50
          /\ results[c].confidence = 80

\* Runner.run of the call for item k returned an output that is no
\* HSCodeSearchResult (lines 183-189)
CallUnstructured(k) ==
    CallReturned(k) /\ batch_results[k].value = UnstructuredFallback

\* an entry of errors is recorded for item k: its own message or the message
\* of its chunk
ErrorRecorded(k) ==
    \E e \in DOMAIN errors :
        errors[e] \in {ItemErrorMsg(k), BatchErrorMsg(ChunkOf(k))}

\* C11: an outcome of a classification call that is no well-formed result,
\* here a model output that is not a structured result, is an item failure:
\* the item's result is the zero-confidence placeholder, it is not counted as
\* successful, and an error entry is recorded for it.
C11_UnstructuredIsFailure ==
    (Returned_ /\ batch_size >= 1) =>
        \A k \in 1 .. N : CallUnstructured(k) =>
            /\ k \in DOMAIN results
            /\ IsSentinel(results[k])
            /\ ErrorRecorded(k)
            /\ processing_stats.successful_classifications < Len(results)

(***************************************************************************)
(* Properties of process_data_with_ai and of the store.                    *)
(***************************************************************************)
\* process_data_with_ai has returned its dictionary
RunReturned == rpc = "returned"

\* the session of the run is in the store
SessionExists == session_id \in DOMAIN processing_sessions

\* the ids of the result rows that name the session sid
SessionRows(sid) ==
    {id \in DOMAIN classification_results :
        classification_results[id].session_id = sid}

\* some of the calls of the run failed and some did not
PartialFailure ==
    /\ \E k \in 1 .. N : CallFailed(k)
    /\ \E k \in 1 .. N : ~CallFailed(k)

\* C12: when some but not all items fail classification (here: Runner.run
\* raised for them, no call was cancelled, no store write raised, the
\* session was not deleted and no column overwrote row_index), the run
\* returns success with one result per submitted item, one row per submitted
\* item is stored and the session is completed.
C12_PartialFailureCompletes ==
    (/\ RunReturned
     /\ PartialFailure
     /\ \A k \in 1 .. N : ~CallRaised(k)
     /\ caught # "sqlite3.Error"
     /\ SessionExists
     /\ extra_column = "none") =>
        /\ ret.success
        /\ Len(ret.results) = Len(prepared)
        /\ Cardinality(SessionRows(session_id)) = Len(prepared)
        /\ processing_sessions[session_id].status = "completed"

\* C13: every store operation that updates user_status (update_user_status
\* and update_result_user_status) rejects a value outside pending, confirmed,
\* needs_review, rejected before any write, so every stored user_status is
\* one of these four values.
C13_ValidUserStatus ==
    \A id \in DOMAIN classification_results :
        classification_results[id].user_status \in valid_statuses

\* C14: every result row names a session that is in the store, also when
\* delete_session runs between the creation of a run's session and the
\* saving of its results.
C14_NoDanglingRows ==
    \A id \in DOMAIN classification_results :
        classification_results[id].session_id \in DOMAIN processing_sessions

\* a step of the run or a store write failed after the session was created
StepFailed == caught # "" \/ NoItemsPrepared(prepared) \/ BatchFailed

\* C15: the session of a run is created with status processing; when the run
\* returns, the status is failed if a processing step or a store write
\* failed after the creation, and then the run reports success=False, and
\* completed otherwise; no returned run leaves its session in processing.
C15_StatusOnReturn ==
    /\ (rpc = "prepare" /\ SessionExists) =>
          processing_sessions[session_id].status = "processing"
    /\ (RunReturned /\ SessionExists) =>
          /\ processing_sessions[session_id].status # "processing"
          /\ StepFailed =>
                /\ processing_sessions[session_id].status = "failed"
                /\ ~ret.success
          /\ ~StepFailed =>
                /\ processing_sessions[session_id].status = "completed"
                /\ ret.success

\* C15 witness: the session was written as completed, saving the results
\* raised, and the run returned with the session failed
C15_Witness ==
    /\ RunReturned
    /\ SessionExists
    /\ caught = "sqlite3.Error"
    /\ processing_sessions[session_id].processed_items > 0
    /\ processing_sessions[session_id].status = "failed"

\* no row of data has a product name that is non-empty after trimming
NoValidRow == \A k \in DOMAIN data : data[k] \in {"NaN", "", " "}

\* C16: when no row has a valid product name, the run issues no
\* classification call, returns success=False with an error message, and
\* its session is at no point completed.
C16_NoItemsFails ==
    (rpc # "not_called" /\ NoValidRow) =>
        /\ pc = "not_called"
        /\ call_log = <<>>
        /\ SessionExists => processing_sessions[session_id].status # "completed"
        /\ RunReturned => (~ret.success /\ ret.error # "")

\* C16 witness: a DataFrame of blank names only, and the run has returned
\* "Нет данных для обработки"
C16_Witness ==
    /\ RunReturned
    /\ Len(data) > 1
    /\ NoValidRow
    /\ ret = NoDataReturn
    /\ SessionExists
    /\ processing_sessions[session_id].status = "failed"

\* the number of results whose confidence is in [lo, hi]
CountBetween(rs, lo, hi) ==
    Cardinality({k \in DOMAIN rs : rs[k].confidence >= lo /\ rs[k].confidence <= hi})

\* C17: for a completed session the stored counts are the three-tier
\* split of the results: high is the number with confidence >= 80, medium
\* the number with 40..79, low the number below 40.
C17_ThreeTierCounts ==
    (SessionExists /\ processing_sessions[session_id].status = "completed") =>
        /\ processing_sessions[session_id].high_confidence_items
              = CountBetween(results, 80, 100)
        /\ processing_sessions[session_id].medium_confidence_items
              = CountBetween(results, 40, 79)
        /\ processing_sessions[session_id].low_confidence_items
              = CountBetween(results, 0, 39)

\* the value the column c of a session row has after update_processing_session
\* was called with the argument param (given or left at None) for it
ColumnAfter(old, new, args, c, param) ==
    new[c] = IF param \in DOMAIN args THEN args[param] ELSE old[c]

\* what C18 asks of a call update_processing_session(sid, args)
PartialUpdate(sid, args) ==
    /\ DOMAIN processing_sessions' = DOMAIN processing_sessions
    /\ \A s \in DOMAIN processing_sessions :
          s # sid => processing_sessions'[s] = processing_sessions[s]
    /\ sid \in DOMAIN processing_sessions =>
          LET old == processing_sessions[sid]
              new == processing_sessions'[sid]
          IN  /\ new.total_items = old.total_items
              /\ ColumnAfter(old, new, args, "processed_items", "processed_items")
              /\ ColumnAfter(old, new, args, "high_confidence_items", "high_confidence")
              /\ ColumnAfter(old, new, args, "medium_confidence_items", "medium_confidence")
              /\ ColumnAfter(old, new, args, "low_confidence_items", "low_confidence")
              /\ ColumnAfter(old, new, args, "status", "status")
    /\ DOMAIN args = {} => processing_sessions' = processing_sessions
    /\ classification_results' = classification_results

\* C18: update_processing_session is a partial update: of the addressed
\* session only the columns whose argument is supplied change, every other
\* column keeps its value, every other session and every result row is
\* unchanged, and a call without arguments changes nothing.
C18_PartialUpdate ==
    [][\A sid \in 1 .. MaxSessions : \A args \in UpdateArgs :
          update_processing_session(sid, args) => PartialUpdate(sid, args)]_all_vars

\* C18 witness: a session that was written as completed with its counts by
\* one call and then as failed by a call that supplied the status alone,
\* next to another session
C18_Witness ==
    \E s, t \in DOMAIN processing_sessions :
        /\ s # t
        /\ processing_sessions[s].status = "failed"
        /\ processing_sessions[s].processed_items = 2
        /\ processing_sessions[s].medium_confidence_items = 1
        /\ processing_sessions[t].status = "processing"

\* C19: for every confidence 0..100 all the tier classifiers of the program
\* give the same tier.
C19_TiersAgree ==
    \A f, g \in Classifiers : shown.tier[f] = shown.tier[g]

\* the 1-based numbers of the rows of data whose product name is not blank,
\* in row order
RECURSIVE NamedRows(_, _)
NamedRows(d, k) ==
    IF k > Len(d) THEN <<>>
    ELSE (IF d[k] \in {"NaN", "", " "} THEN <<>> ELSE <<k>>) \o NamedRows(d, k + 1)

\* prepare_items_for_processing has returned the items
ItemsPrepared ==
    /\ column_mapping = "product_name"
    /\ session_id # 0
    /\ rpc \notin {"not_called", "create", "prepare"}

\* C20: prepare_items_for_processing returns, in row order, exactly one item
\* for each row whose product name is not blank, with that row's row_index
\* and a product_name that is not empty.
C20_PreparedItems ==
    ItemsPrepared =>
        /\ Len(prepared) = Len(NamedRows(data, 1))
        /\ \A m \in DOMAIN prepared :
              /\ prepared[m].product_name # ""
              /\ prepared[m].row_index = IntIndex(data_index[NamedRows(data, 1)[m]])

(***************************************************************************)
(* Further properties of classify_batch.                                   *)
(***************************************************************************)
\* the number of classify_single_item calls issued for item k
CallsFor(k) == Cardinality({a \in DOMAIN call_log : call_log[a] = k})

\* C21: within one classify_batch invocation (chunk size >= 1) no item is
\* ever classified twice, whether its call succeeds or fails, and on return
\* the call of every item has been issued exactly once.
C21_SingleAttempt ==
    batch_size >= 1 =>
        /\ \A k \in 1 .. N : CallsFor(k) <= 1
        /\ \A k \in 1 .. N : task[k] # "none" <=> CallsFor(k) = 1
        /\ Returned_ => \A k \in 1 .. N : CallsFor(k) = 1

\* C21 witness: several chunks, a call that failed, and classify_batch has
\* returned
C21_Witness ==
    /\ Returned_
    /\ batch_size = 1
    /\ N >= 2
    /\ \E k \in 1 .. N : CallFailed(k)
    /\ \A k \in 1 .. N : CallsFor(k) = 1

\* C29: when the handling of a chunk's outcomes raises part-way through the
\* chunk (the chunk-level except branch), the chunk contributes exactly
\* len(chunk) results, so len(results) = len(items) on return.
C29_ChunkFailureKeepsLength ==
    (Returned_ /\ batch_size >= 1 /\ \E c \in 1 .. N : ChunkFailed(c)) =>
        Len(results) = N

(***************************************************************************)
(* Further properties of process_data_with_ai.                             *)
(***************************************************************************)
\* C25: whenever a session has status completed, its result rows are already
\* in the store and their number equals its processed_items.
C25_CompletedHasRows ==
    \A sid \in DOMAIN processing_sessions :
        processing_sessions[sid].status = "completed" =>
            Cardinality(SessionRows(sid)) = processing_sessions[sid].processed_items

\* every call of the run returned a structured result
EveryCallSucceeds ==
    /\ N >= 1
    /\ \A k \in 1 .. N : CallReturned(k) /\ ~CallUnstructured(k)

\* C26: when at least one row has a non-blank name and every classification
\* call succeeds (no store write raised, the session was not deleted and no
\* column overwrote row_index), the run returns success, the session is
\* completed and one row per prepared item is stored, also when other rows
\* were dropped as blank.
C26_NamedRowsComplete ==
    (/\ RunReturned
     /\ column_mapping = "product_name"
     /\ extra_column = "none"
     /\ \E k \in DOMAIN data : HasName(ProductName(data[k]))
     /\ EveryCallSucceeds
     /\ caught # "sqlite3.Error"
     /\ SessionExists) =>
        /\ ret.success
        /\ processing_sessions[session_id].status = "completed"
        /\ Len(ret.results) = Len(prepared)
        /\ Cardinality(SessionRows(session_id)) = Len(prepared)

\* C30: for the session of a run that is marked completed, the three
\* confidence counts are non-negative and add up to processed_items, which is
\* the number of items submitted to classify_batch.
C30_CountsAddUp ==
    (SessionExists /\ processing_sessions[session_id].status = "completed") =>
        LET s == processing_sessions[session_id] IN
        /\ s.high_confidence_items >= 0
        /\ s.medium_confidence_items >= 0
        /\ s.low_confidence_items >= 0
        /\ s.high_confidence_items + s.medium_confidence_items
              + s.low_confidence_items = s.processed_items
        /\ s.processed_items = N

\* C30 witness: a completed session over several items with a high and a
\* medium confidence result
C30_Witness ==
    /\ SessionExists
    /\ processing_sessions[session_id].status = "completed"
    /\ N >= 2
    /\ processing_sessions[session_id].high_confidence_items >= 1
    /\ processing_sessions[session_id].medium_confidence_items >= 1

\* C27: in every stored result row the category, brand and additional_info
\* come from the same source row as product_name and row_index, also when
\* the row labels are not contiguous.
C27_SameSourceRow ==
    \A id \in DOMAIN classification_results :
        classification_results[id].category =
            CategoryCell(classification_results[id].row_index.value)

(***************************************************************************)
(* Properties of the stored results.                                       *)
(***************************************************************************)
\* the ids of the result rows that a step changes
ChangedRows ==
    {id \in DOMAIN classification_results \cap DOMAIN classification_results' :
        classification_results'[id] # classification_results[id]}

\* what a step may do to the stored result rows
RowsKept ==
    /\ \A id \in ChangedRows :
          classification_results'[id] =
             [classification_results[id] EXCEPT
                 !.user_status = classification_results'[id].user_status]
    /\ Cardinality(ChangedRows) <= 1
    /\ ChangedRows # {} =>
          /\ DOMAIN classification_results' = DOMAIN classification_results
          /\ processing_sessions' = processing_sessions
    /\ \A id \in DOMAIN classification_results \ DOMAIN classification_results' :
          /\ classification_results[id].session_id \notin DOMAIN processing_sessions'
          /\ ChangedRows = {}

\* C22: a stored result row is changed after its creation only by the user
\* review operations: a step changes at most one row, it changes user_status
\* alone, and it changes neither the sessions nor the set of rows; the only
\* step that removes rows removes a session with all its rows.
C22_OnlyReviewChangesRows == [][RowsKept]_all_vars

\* C22 witness: one of two stored rows was reviewed, the other one still is
\* as it was inserted
C22_Witness ==
    \E a, b \in DOMAIN classification_results :
        /\ classification_results[a].user_status = "confirmed"
        /\ classification_results[b] =
              NewResult(classification_results[b].session_id, SomeResult)

\* C23: get_session_results(s) returns exactly the rows whose session_id is
\* s, each once and with its stored values, in non-decreasing row_index
\* order whatever the order of insertion.
C23_SessionResultsOrdered ==
    fetched.session_id # 0 =>
        LET q == fetched.rows
            ids == Selected(classification_results, fetched.session_id)
        IN  /\ {q[k].id : k \in DOMAIN q} = ids
            /\ Len(q) = Cardinality(ids)
            /\ \A k \in DOMAIN q : q[k] = FetchedRow(classification_results, q[k].id)
            /\ \A a, b \in DOMAIN q :
                  a < b => q[a].row_index.value <= q[b].row_index.value

\* C23 witness: the rows of a session are returned in another order than
\* they were inserted, and a row of another session is left out
C23_Witness ==
    /\ fetched.session_id # 0
    /\ Len(fetched.rows) >= 2
    /\ fetched.rows[1].id > fetched.rows[2].id
    /\ \E id \in DOMAIN classification_results :
          classification_results[id].session_id # fetched.session_id

(***************************************************************************)
(* Properties of the Streamlit script.                                     *)
(***************************************************************************)
\* the five steps
Steps == {"upload", "preview", "mapping", "processing", "results"}

\* the changes of current_step the script makes
StepChanges ==
    {<<"upload", "preview">>,
     <<"preview", "upload">>, <<"preview", "mapping">>,
     <<"mapping", "preview">>, <<"mapping", "processing">>,
     <<"processing", "mapping">>, <<"processing", "results">>,
     <<"results", "mapping">>, <<"results", "processing">>,
     <<"results", "upload">>}

\* column_mapping names a column for product_name
ProductNameMapped ==
    /\ "product_name" \in DOMAIN session_column_mapping
    /\ session_column_mapping.product_name \in Columns

\* what holds of current_step in every state
StepInvariant ==
    /\ current_step \in Steps
    /\ current_step = "processing" => DataLoaded /\ ProductNameMapped
    /\ current_step = "results" => processing_results # NoProcessingResults

\* a change of current_step is one of StepChanges, with its condition
StepChange ==
    current_step' # current_step =>
        /\ <<current_step, current_step'>> \in StepChanges
        /\ current_step' = "preview" /\ current_step = "upload" =>
              uploaded_data' # NoData
        /\ current_step' = "processing" /\ current_step = "mapping" =>
              ProductNameMapped'
        /\ current_step' = "results" =>
              processing_results' # NoProcessingResults

\* C24: current_step starts at upload, is always one of the five steps and
\* changes only along upload -> preview (a file was loaded), preview ->
\* upload | mapping, mapping -> preview | processing (a product_name column
\* is selected), processing -> mapping | results (processing_results is
\* set), results -> mapping | processing | upload; in processing the data
\* and the product_name mapping exist, in results processing_results is set.
C24_StepMachine ==
    /\ current_step = "upload"
    /\ []StepInvariant
    /\ [][StepChange]_all_vars

\* C24 witness: the processing page entered again from the results page
C24_Witness ==
    /\ current_step = "processing"
    /\ processing_results # NoProcessingResults
    /\ DataLoaded
    /\ ProductNameMapped

\* the results page renders results (line 686)
ResultsShown ==
    current_step = "results" /\ processing_results # NoProcessingResults

\* C28: whenever the results page shows results, processing_results and
\* current_session_id were produced by a run over the uploaded_data and the
\* column_mapping that are stored now.
C28_ResultsAreCurrent ==
    ResultsShown =>
        /\ processing_results.data = uploaded_data
        /\ processing_results.column_mapping = session_column_mapping
        /\ processing_results.session_id = current_session_id


====
